---------------------------- MODULE Spec2Model ----------------------------
(***************************************************************************)
(* Model of extract_files.py: main, parse_files_xml and process_sections.  *)
(*                                                                         *)
(* Strings are sequences of one-character strings, so that strip, split,   *)
(* the extension rule, sanitize_filename and the :02d format are computed  *)
(* the way the code computes them.  An XML element is a record             *)
(* [present, text]; text = <<>> stands for ElementTree's text = None (an   *)
(* empty element).  The content of an output file is the path of the blob  *)
(* it was copied from (the blob store is content-addressed).               *)
(***************************************************************************)
EXTENDS Integers, Sequences, FiniteSets, TLC

VARIABLES
    files_xml,           \* ./files.xml: [state, files]
    sections,            \* ./sections in os.listdir order
    activities,          \* ./activities in os.listdir order
    blobs,               \* ./files: <<shard, hash>> -> "file" | "dir"
    pass,                \* "first" or "second" invocation of main
    pc,                  \* position in main / parse_files_xml / process_sections
    files_by_contextid,  \* the index (a dict)
    fi,                  \* position of the loop of parse_files_xml
    si,                  \* position of the loop over sections
    section_output_path, \* folder of the section being walked
    sequence_ids,        \* filtered sequence of the section being walked
    idx,                 \* enumerate(sequence_ids, start=1)
    output_dir,          \* whether ./output exists
    folders,             \* section folders existing under ./output
    output,              \* files under ./output: <<folder, filename>> -> blob copied
    log,                 \* the lines printed for sequence entries, in order
    first_output         \* [folders, files] as the first invocation left them

archive == <<files_xml, sections, activities, blobs>>
vars == <<files_xml, sections, activities, blobs, pass, pc, files_by_contextid,
          fi, si, section_output_path, sequence_ids, idx, output_dir, folders,
          output, log, first_output>>

----------------------------------------------------------------------------
(* Bounds of the archives explored.                                        *)

MaxFiles == 2
MaxSections == 2
MaxSequence == 3

----------------------------------------------------------------------------
(* String helpers.                                                         *)

RECURSIVE LStrip(_)
LStrip(s) == IF s # <<>> /\ Head(s) = " " THEN LStrip(Tail(s)) ELSE s

RECURSIVE RStrip(_)
RStrip(s) ==
    IF s # <<>> /\ s[Len(s)] = " " THEN RStrip(SubSeq(s, 1, Len(s) - 1)) ELSE s

\* str.strip()
Strip(s) == RStrip(LStrip(s))

RECURSIVE SplitFrom(_, _, _, _)
SplitFrom(s, c, i, cur) ==
    IF i > Len(s) THEN <<cur>>
    ELSE IF s[i] = c THEN <<cur>> \o SplitFrom(s, c, i + 1, <<>>)
    ELSE SplitFrom(s, c, i + 1, Append(cur, s[i]))

\* str.split(c): always at least one part
Split(s, c) == SplitFrom(s, c, 1, <<>>)

RECURSIVE Join(_, _)
Join(parts, c) ==
    IF parts = <<>> THEN <<>>
    ELSE IF Len(parts) = 1 THEN parts[1]
    ELSE parts[1] \o <<c>> \o Join(Tail(parts), c)

Forbidden == {"\\", "/", ":", "\"", "*", "?", "<", ">", "|"}

RECURSIVE SanitizeFrom(_, _, _)
SanitizeFrom(s, i, inrun) ==
    IF i > Len(s) THEN <<>>
    ELSE IF s[i] \in Forbidden
         THEN (IF inrun THEN <<>> ELSE <<"_">>) \o SanitizeFrom(s, i + 1, TRUE)
         ELSE <<s[i]>> \o SanitizeFrom(s, i + 1, FALSE)

\* re.sub(r'[\\/:"*?<>|]+', '_', name): each run of forbidden characters
\* becomes one underscore
sanitize_filename(name) == SanitizeFrom(name, 1, FALSE)

DigitChars == <<"0", "1", "2", "3", "4", "5", "6", "7", "8", "9">>

DigitValue(c) == CHOOSE d \in 0..9 : DigitChars[d + 1] = c

IsDigits(s) == s # <<>> /\ \A i \in 1..Len(s) : \E d \in 0..9 : DigitChars[d + 1] = s[i]

RECURSIVE DigitsValue(_)
DigitsValue(s) ==
    IF s = <<>> THEN 0
    ELSE 10 * DigitsValue(SubSeq(s, 1, Len(s) - 1)) + DigitValue(s[Len(s)])

\* int(text) with ValueError mapped to 0 (texts here hold digits or letters)
ParseSectionNumber(text) == IF IsDigits(text) THEN DigitsValue(text) ELSE 0

RECURSIVE Digits(_)
Digits(n) ==
    IF n < 10 THEN <<DigitChars[n + 1]>>
    ELSE Append(Digits(n \div 10), DigitChars[(n % 10) + 1])

\* f"{n:02d}" for n >= 0
Format02d(n) == IF n < 10 THEN <<"0">> \o Digits(n) ELSE Digits(n)

EmptyMap == [k \in {} |-> <<>>]

Put(m, k, v) == [x \in DOMAIN m \cup {k} |-> IF x = k THEN v ELSE m[x]]


StartsWith(s, p) == Len(s) >= Len(p) /\ SubSeq(s, 1, Len(p)) = p

EndsWith(s, p) == Len(s) >= Len(p) /\ SubSeq(s, Len(s) - Len(p) + 1, Len(s)) = p

SeqsUpTo(S, n) == UNION {[1..k -> S] : k \in 0..n}

----------------------------------------------------------------------------
(* The archives explored: what ./files.xml, ./sections, ./activities and   *)
(* ./files can hold.                                                       *)

Elem(t) == [present |-> TRUE, text |-> t]
NoElem == [present |-> FALSE, text |-> <<>>]

Ctx7 == <<"7">>
Ctx1 == <<"1">>
HashA == <<"a", "b", "1">>
HashB == <<"c", "d", "2">>
Ref1 == <<"1">>
Ref2 == <<"2">>

FileElem(c, h, f) == [contextid |-> c, contenthash |-> h, filename |-> f]

FileA == FileElem(Elem(Ctx7), Elem(HashA), Elem(<<"f", ".", "p">>))
FileB == FileElem(Elem(Ctx1), Elem(HashB), Elem(<<"g", ".", "h", ".", "q">>))

\* <file> elements that index, with identifiers repeated and padded
UsableFiles ==
    {FileElem(Elem(c), Elem(h), Elem(<<"f", ".", "p">>)) :
        c \in {Ctx7, <<"7", " ">>}, h \in {HashA, HashB}} \cup {FileB}

\* <file> elements with one defect each
DefectiveFiles ==
    {FileElem(Elem(Ctx7), Elem(HashA), Elem(f)) :
        f \in {<<>>, <<".">>, <<"f">>, <<"f", ".">>}}
    \cup {FileElem(Elem(Ctx7), Elem(<<>>), Elem(<<"f", ".", "p">>)),
          FileElem(NoElem, Elem(HashA), Elem(<<"f", ".", "p">>)),
          FileElem(Elem(Ctx7), NoElem, Elem(<<"f", ".", "p">>)),
          FileElem(Elem(Ctx7), Elem(HashA), NoElem),
          FileElem(Elem(<<>>), Elem(HashA), Elem(<<"f", ".", "p">>))}

FilesXml(state, files) == [state |-> state, files |-> files]

\* the blob of hash h lies at ./files/<h[:2]>/<h>
BlobPath(h) == <<SubSeq(h, 1, 2), h>>

AllBlobs == [p \in {BlobPath(HashA), BlobPath(HashB)} |-> "file"]

BlobStores ==
    {AllBlobs,
     [p \in {BlobPath(HashB)} |-> "file"],
     [p \in {BlobPath(HashA), BlobPath(HashB)} |->
        IF p = BlobPath(HashA) THEN "dir" ELSE "file"]}

ResourcePrefix == <<"r", "e", "s", "o", "u", "r", "c", "e", "_">>
PagePrefix == <<"p", "a", "g", "e", "_">>
QuizPrefix == <<"q", "u", "i", "z", "_">>

\* a descriptor (resource.xml / page.xml) of an activity folder
Xml(ctx, child, name) ==
    [exists |-> TRUE, parses |-> TRUE, contextid |-> ctx, child |-> child,
     name |-> name]
NoXml == [exists |-> FALSE, parses |-> FALSE, contextid |-> <<>>,
          child |-> "none", name |-> <<>>]
BadXml == [exists |-> TRUE, parses |-> FALSE, contextid |-> <<>>,
           child |-> "none", name |-> <<>>]

Folder(prefix, id, xml) ==
    [name |-> prefix \o id, isdir |-> TRUE, xml |-> xml]

NameN == <<"N">>
NameP == <<" ", "N", "?", "*">>

GoodResource(id) == Folder(ResourcePrefix, id, Xml(Ctx7, "resource", NameN))
GoodPage(id) == Folder(PagePrefix, id, Xml(Ctx1, "page", NameP))

\* what ./activities can hold for reference id
ActivityCases(id) ==
    {<<GoodResource(id)>>,
     <<GoodPage(id)>>,
     <<GoodResource(id), GoodPage(id)>>,
     <<Folder(ResourcePrefix, id, NoXml), GoodPage(id)>>,
     <<Folder(ResourcePrefix, id, BadXml), GoodPage(id)>>,
     <<Folder(ResourcePrefix, id, NoXml), Folder(PagePrefix, id, NoXml)>>,
     <<Folder(QuizPrefix, id, NoXml)>>,
     <<[name |-> QuizPrefix \o id, isdir |-> FALSE, xml |-> NoXml]>>,
     <<>>,
     <<Folder(ResourcePrefix, id, Xml(<<>>, "resource", NameN))>>,
     <<Folder(ResourcePrefix, id, Xml(Ctx7, "none", NameN))>>,
     <<Folder(PagePrefix, id, Xml(Ctx1, "page", <<>>))>>}

FewActivityCases(id) ==
    {<<GoodPage(id)>>, <<Folder(QuizPrefix, id, NoXml)>>}

\* a section folder; authored is the list section.xml's <sequence> joins
Section(number, name, authored) ==
    [isdir |-> TRUE, has_xml |-> TRUE, parses |-> TRUE, number |-> Elem(number),
     name |-> Elem(name), sequence |-> Elem(Join(authored, ",")),
     authored |-> authored]

BrokenSections ==
    {[Section(<<"1">>, <<"W">>, <<Ref1>>) EXCEPT !.isdir = FALSE],
     [Section(<<"1">>, <<"W">>, <<Ref1>>) EXCEPT !.has_xml = FALSE],
     [Section(<<"1">>, <<"W">>, <<Ref1>>) EXCEPT !.parses = FALSE],
     [Section(<<"1">>, <<"W">>, <<Ref1>>) EXCEPT !.sequence = NoElem]}

\* number and display name: the first two give one folder name
Titles ==
    {<<<<"1">>, <<"W", "/">>>>, <<<<"1">>, <<"W", ":", "?">>>>,
     <<<<"x">>, <<"W", "/">>>>, <<<<>>, <<>>>>}

AuthoredEntries == {Ref1, <<" ", "2", " ">>, <<" ">>, <<>>}

\* files.xml varies; one section, one resource
ManifestArchives ==
    {<<f, <<Section(<<"1">>, <<"W">>, <<Ref1>>)>>, <<GoodResource(Ref1)>>, AllBlobs>> :
        f \in {FilesXml("absent", <<>>), FilesXml("unparsable", <<>>)}
              \cup {FilesXml("ok", m) :
                      m \in SeqsUpTo(UsableFiles \cup DefectiveFiles, MaxFiles)}}

\* the activities and the blob store vary; one section of references
ResolverArchives ==
    {<<FilesXml("ok", m), <<Section(<<"1">>, <<"W">>, q)>>, a1 \o a2, b>> :
        m \in {<<FileA>>, <<FileB>>, <<FileA, FileB>>},
        q \in SeqsUpTo({Ref1, Ref2}, MaxSequence),
        a1 \in ActivityCases(Ref1), a2 \in FewActivityCases(Ref2),
        b \in BlobStores}

\* the sequence field and the title of one section vary
SequenceArchives ==
    {<<FilesXml("ok", <<FileA, FileB>>), <<Section(t[1], t[2], q)>>,
       <<GoodResource(Ref1)>> \o a2, AllBlobs>> :
        t \in Titles, q \in SeqsUpTo(AuthoredEntries, MaxSequence),
        a2 \in {<<GoodPage(Ref2)>>, <<>>}}

SectionCases ==
    BrokenSections
    \cup {Section(t[1], t[2], q) :
            t \in Titles \ {<<<<>>, <<>>>>}, q \in {<<Ref1>>, <<Ref2, Ref1>>}}

\* the list of sections varies
SectionArchives ==
    {<<FilesXml("ok", <<FileA, FileB>>), s,
       <<GoodResource(Ref1), GoodPage(Ref2)>>, AllBlobs>> :
        s \in SeqsUpTo(SectionCases, MaxSections) \ {<<>>}}

\* two sections; the first reference fails or not in every way there is
FailureArchives ==
    {<<FilesXml("ok", m),
       <<Section(<<"1">>, <<"W">>, <<Ref1, Ref2>>),
         Section(<<"2">>, <<"W">>, <<Ref2, Ref1>>)>>,
       a1 \o <<GoodPage(Ref2)>>, b>> :
        m \in {<<FileA>>, <<FileB>>, <<FileA, FileB>>},
        a1 \in ActivityCases(Ref1), b \in BlobStores}

Archives ==
    ManifestArchives \cup ResolverArchives \cup SequenceArchives
    \cup SectionArchives \cup FailureArchives

----------------------------------------------------------------------------
(* parse_files_xml                                                         *)

\* lines 47-50: everything after the last period, "" without a period
Extension(filename) ==
    IF \E i \in 1..Len(filename) : filename[i] = "."
    THEN LET parts == Split(filename, ".") IN parts[Len(parts)]
    ELSE <<>>

\* Store without the "not in" test: the last entry wins
StoreLast(index, contextid, contenthash, extension) ==
    IF extension # <<>>
    THEN Put(index, contextid, [contenthash |-> contenthash, extension |-> extension])
    ELSE index

\* lines 53-54: the first entry stored under a contextid stays
Store(index, contextid, contenthash, extension) ==
    IF extension # <<>> /\ contextid \notin DOMAIN index
    THEN Put(index, contextid, [contenthash |-> contenthash, extension |-> extension])
    ELSE index

\* lines 32-54: one iteration of the loop over <file> elements; "raise" is
\* the AttributeError of None.strip() on an empty <contextid/>
ParseFileElem(index, e) ==
    IF ~e.contextid.present \/ ~e.contenthash.present \/ ~e.filename.present
    THEN [raise |-> FALSE, index |-> index]
    ELSE IF e.contextid.text = <<>>
    THEN [raise |-> TRUE, index |-> index]
    ELSE LET contextid == Strip(e.contextid.text)
             contenthash == Strip(e.contenthash.text)
             filename == Strip(e.filename.text)
         IN IF contenthash = <<>> \/ filename = <<".">> \/ filename = <<>>
            THEN [raise |-> FALSE, index |-> index]
            ELSE [raise |-> FALSE,
                  index |-> Store(index, contextid, contenthash, Extension(filename))]

----------------------------------------------------------------------------
(* process_sections                                                        *)

\* lines 66-86: the section folder is skipped with or without a report
SectionSkipped(sec) ==
    \/ ~sec.isdir
    \/ ~sec.has_xml
    \/ ~sec.parses
    \/ ~sec.number.present \/ ~sec.name.present \/ ~sec.sequence.present

\* lines 88-100: "XX Chapter <name>"
FolderName(sec) ==
    LET section_number_text ==
            IF sec.number.text # <<>> THEN Strip(sec.number.text) ELSE <<"0">>
        section_name ==
            IF sec.name.text # <<>> THEN Strip(sec.name.text)
            ELSE <<"U", "n", "n", "a", "m", "e", "d">>
    IN Format02d(ParseSectionNumber(section_number_text))
       \o <<" ", "C", "h", "a", "p", "t", "e", "r", " ">>
       \o sanitize_filename(section_name)

RECURSIVE StripNonEmpty(_)
StripNonEmpty(parts) ==
    IF parts = <<>> THEN <<>>
    ELSE IF Strip(Head(parts)) # <<>>
         THEN <<Strip(Head(parts))>> \o StripNonEmpty(Tail(parts))
         ELSE StripNonEmpty(Tail(parts))

RECURSIVE StripAll(_)
StripAll(parts) ==
    IF parts = <<>> THEN <<>> ELSE <<Strip(Head(parts))>> \o StripAll(Tail(parts))

\* SequenceIds without the "if s.strip()" filter
SequenceIdsUnfiltered(sec) == StripAll(Split(Strip(sec.sequence.text), ","))

\* lines 90 and 104: [s.strip() for s in sequence_text.split(",") if s.strip()]
SequenceIds(sec) == StripNonEmpty(Split(Strip(sec.sequence.text), ","))

\* os.path.exists(./activities/<prefix><seq_id>/<kind>.xml)
XmlExists(prefix, seq_id) ==
    \E i \in 1..Len(activities) :
        /\ activities[i].name = prefix \o seq_id
        /\ activities[i].isdir
        /\ activities[i].xml.exists

XmlOf(prefix, seq_id) ==
    activities[CHOOSE i \in 1..Len(activities) :
                   activities[i].name = prefix \o seq_id].xml

\* ProbeKind with the two probes swapped
ProbeKindPageFirst(seq_id) ==
    IF XmlExists(PagePrefix, seq_id) THEN "page"
    ELSE IF XmlExists(ResourcePrefix, seq_id) THEN "resource"
    ELSE "none"

\* lines 110-121: resource.xml is tried first, then page.xml
ProbeKind(seq_id) ==
    IF XmlExists(ResourcePrefix, seq_id) THEN "resource"
    ELSE IF XmlExists(PagePrefix, seq_id) THEN "page"
    ELSE "none"

\* lines 124-131: the first other folder in listdir order, <<>> when none
FoundOther(seq_id) ==
    LET hits == {i \in 1..Len(activities) :
                    /\ activities[i].isdir
                    /\ EndsWith(activities[i].name, <<"_">> \o seq_id)
                    /\ ~StartsWith(activities[i].name, ResourcePrefix)
                    /\ ~StartsWith(activities[i].name, PagePrefix)}
    IN IF hits = {} THEN <<>>
       ELSE activities[CHOOSE i \in hits : \A j \in hits : i <= j].name

\* LookupKey reading the index under the sequence id
LookupKeyByReference(seq_id, contextid) == seq_id

\* line 166: the index is read under the record's contextid
LookupKey(seq_id, contextid) == contextid

\* line 173: ./files/<contenthash[:2]>/<contenthash>
SourcePath(contenthash) == <<SubSeq(contenthash, 1, IF Len(contenthash) < 2 THEN Len(contenthash) ELSE 2), contenthash>>

\* DestFilename numbering from 0, as enumerate without start=1 would
DestFilenameFromZero(i, resource_name, extension) ==
    Format02d(i - 1) \o <<" ">> \o sanitize_filename(resource_name) \o <<".">>
    \o extension

\* line 179: "XX <name>.<extension>"
DestFilename(i, resource_name, extension) ==
    Format02d(i) \o <<" ">> \o sanitize_filename(resource_name) \o <<".">>
    \o extension

Event(section, i, seq_id, xml_type, outcome) ==
    [section |-> section, idx |-> i, seq_id |-> seq_id, xml_type |-> xml_type,
     outcome |-> outcome, scanned |-> xml_type = "none", detail |-> <<>>,
     contextid |-> <<>>, source |-> <<>>, dest |-> <<>>]

\* lines 106-186: one iteration of the loop over sequence_ids, as the line
\* it prints
ProcessItem(section, i, seq_id, folder, index) ==
    LET xml_type == ProbeKind(seq_id)
        ev(outcome) == Event(section, i, seq_id, xml_type, outcome)
    IN IF xml_type = "none"
       THEN IF FoundOther(seq_id) # <<>>
            THEN [ev("unsupported") EXCEPT
                    !.detail = Split(FoundOther(seq_id), "_")[1]]
            ELSE ev("not_found")
       ELSE
       LET xml == XmlOf(IF xml_type = "resource" THEN ResourcePrefix
                        ELSE PagePrefix, seq_id)
       IN IF ~xml.parses THEN ev("parse_error")
          ELSE IF xml.contextid = <<>> THEN ev("no_contextid")
          ELSE IF xml.child # xml_type THEN ev("no_child")
          ELSE IF xml.name = <<>> THEN ev("no_name")
          ELSE
          LET key == LookupKey(seq_id, xml.contextid)
              found == [ev("no_file_info") EXCEPT !.contextid = xml.contextid]
          IN IF key \notin DOMAIN index THEN found
             ELSE
             LET source == SourcePath(index[key].contenthash)
                 dest == <<folder, DestFilename(i, Strip(xml.name),
                                                index[key].extension)>>
                 at == [found EXCEPT !.source = source]
             IN IF source \notin DOMAIN blobs
                THEN [at EXCEPT !.outcome = "no_source"]
                ELSE IF blobs[source] # "file"
                THEN [at EXCEPT !.outcome = "copy_error", !.dest = dest]
                ELSE [at EXCEPT !.outcome = "copied", !.dest = dest]

\* CopyFile that keeps an existing destination and writes beside it
CopyFileBeside(tree, source, dest) ==
    IF dest \in DOMAIN tree
    THEN Put(tree, <<dest[1], dest[2] \o <<"~">>>>, source)
    ELSE Put(tree, dest, source)

\* line 183: shutil.copy2 creates or overwrites the destination
CopyFile(tree, source, dest) == Put(tree, dest, source)

\* AfterItem without the try/except of lines 182-186
AfterItemCopyRaises(outcome) ==
    IF outcome = "copy_error" THEN "raise" ELSE "continue"

\* lines 137-186: every branch of an iteration ends in the next iteration
AfterItem(outcome) == "continue"

\* IndexEmpty with the check of line 195 left out
IndexEmptyUnchecked(index) == FALSE

\* line 195: not files_by_contextid
IndexEmpty(index) == DOMAIN index = {}

----------------------------------------------------------------------------
(* The program.                                                            *)

\* main is about to run on archive a, ./output not yet there
Start(a) ==
    /\ files_xml = a[1]
    /\ sections = a[2]
    /\ activities = a[3]
    /\ blobs = a[4]
    /\ pass = "first"
    /\ pc = "main"
    /\ files_by_contextid = EmptyMap
    /\ fi = 0
    /\ si = 0
    /\ section_output_path = <<>>
    /\ sequence_ids = <<>>
    /\ idx = 0
    /\ output_dir = FALSE
    /\ folders = {}
    /\ output = EmptyMap
    /\ log = <<>>
    /\ first_output = [folders |-> {}, files |-> EmptyMap]

Init == \E a \in Archives : Start(a)

InitFailures == \E a \in FailureArchives : Start(a)

\* lines 189-194 and 24-30: main up to the loop of parse_files_xml
Main ==
    /\ pc = "main"
    /\ pc' = IF files_xml.state = "ok" THEN "parse" ELSE "fatal"
    /\ fi' = 1
    /\ files_by_contextid' = EmptyMap
    /\ UNCHANGED <<archive, pass, si, section_output_path, sequence_ids, idx,
                   output_dir, folders, output, log, first_output>>

\* lines 31-54: one <file> element
ParseFile ==
    /\ pc = "parse"
    /\ fi <= Len(files_xml.files)
    /\ LET r == ParseFileElem(files_by_contextid, files_xml.files[fi])
       IN /\ files_by_contextid' = r.index
          /\ pc' = IF r.raise THEN "crashed" ELSE "parse"
    /\ fi' = fi + 1
    /\ UNCHANGED <<archive, pass, si, section_output_path, sequence_ids, idx,
                   output_dir, folders, output, log, first_output>>

\* the section after position s that the loop of line 64 reaches, or the end
NextSection(s) == IF s + 1 > Len(sections) THEN "done" ELSE "section"

\* lines 55, 195-199 and 58-61: the index is returned, main checks it and
\* process_sections creates ./output
EnterSections ==
    /\ pc = "parse"
    /\ fi > Len(files_xml.files)
    /\ IF IndexEmpty(files_by_contextid)
       THEN /\ pc' = "fatal"
            /\ UNCHANGED <<si, output_dir>>
       ELSE /\ pc' = NextSection(0)
            /\ si' = 1
            /\ output_dir' = TRUE
    /\ UNCHANGED <<archive, pass, files_by_contextid, fi, section_output_path,
                   sequence_ids, idx, folders, output, log, first_output>>

\* lines 64-104: one section folder, up to its loop over sequence_ids
WalkSection ==
    /\ pc = "section"
    /\ LET sec == sections[si]
       IN IF SectionSkipped(sec)
          THEN /\ pc' = NextSection(si)
               /\ si' = si + 1
               /\ UNCHANGED <<section_output_path, sequence_ids, idx, folders>>
          ELSE /\ section_output_path' = FolderName(sec)
               /\ folders' = folders \cup {FolderName(sec)}
               /\ sequence_ids' = SequenceIds(sec)
               /\ idx' = 1
               /\ IF SequenceIds(sec) = <<>>
                  THEN pc' = NextSection(si) /\ si' = si + 1
                  ELSE pc' = "item" /\ si' = si
    /\ UNCHANGED <<archive, pass, files_by_contextid, fi, output_dir, output,
                   log, first_output>>

\* lines 105-186: one sequence id
WalkItem ==
    /\ pc = "item"
    /\ LET ev == ProcessItem(si, idx, sequence_ids[idx], section_output_path,
                             files_by_contextid)
       IN /\ log' = Append(log, ev)
          /\ output' = IF ev.outcome = "copied"
                       THEN CopyFile(output, ev.source, ev.dest)
                       ELSE output
          /\ IF AfterItem(ev.outcome) # "continue"
             THEN pc' = "crashed" /\ UNCHANGED <<si, idx>>
             ELSE IF idx < Len(sequence_ids)
             THEN pc' = "item" /\ idx' = idx + 1 /\ si' = si
             ELSE pc' = NextSection(si) /\ si' = si + 1 /\ idx' = idx
    /\ UNCHANGED <<archive, pass, files_by_contextid, fi, section_output_path,
                   sequence_ids, output_dir, folders, first_output>>

\* lines 201-202: the script is run again on the same archive and output
Rerun ==
    /\ pc \in {"done", "fatal"}
    /\ pass = "first"
    /\ pass' = "second"
    /\ first_output' = [folders |-> folders, files |-> output]
    /\ pc' = "main"
    /\ files_by_contextid' = EmptyMap
    /\ fi' = 0
    /\ si' = 0
    /\ section_output_path' = <<>>
    /\ sequence_ids' = <<>>
    /\ idx' = 0
    /\ log' = <<>>
    /\ UNCHANGED <<archive, output_dir, folders, output>>

Next ==
    \/ Main
    \/ ParseFile
    \/ EnterSections
    \/ WalkSection
    \/ WalkItem
    \/ Rerun

Spec == Init /\ [][Next]_vars

\* the interpreter runs the script to its end: no step waits on anything
FairSpec == InitFailures /\ [][Next]_vars /\ WF_vars(Next)

----------------------------------------------------------------------------
(* What the claims speak of, stated from the archive and the printed       *)
(* lines, not through the operators of the program.                        *)

NonBlank(t) == \E i \in 1..Len(t) : t[i] # " "

\* t is e without its leading and trailing blanks
IsTrimOf(t, e) ==
    /\ t # <<>> /\ t[1] # " " /\ t[Len(t)] # " "
    /\ \E a \in 0..Len(e) :
        /\ a + Len(t) <= Len(e)
        /\ SubSeq(e, a + 1, a + Len(t)) = t
        /\ \A i \in 1..Len(e) : (i <= a \/ i > a + Len(t)) => e[i] = " "

\* a manifest entry with a content hash, a filename other than "" and ".",
\* and something after the filename's last period
UsableFile(e) ==
    /\ e.contextid.present /\ e.contenthash.present /\ e.filename.present
    /\ NonBlank(e.contenthash.text)
    /\ NonBlank(e.filename.text)
    /\ \E f \in {e.filename.text} \cup
                {SubSeq(e.filename.text, a, b) : a, b \in 1..Len(e.filename.text)} :
        /\ IsTrimOf(f, e.filename.text)
        /\ f # <<".">>
        /\ \E i \in 1..Len(f) : f[i] = "."
        /\ f[Len(f)] # "."

\* the part of t after its last period, blanks at the end left out
AfterLastPeriod(t) ==
    LET k == CHOOSE k \in 1..Len(t) :
                 t[k] = "." /\ \A j \in (k + 1)..Len(t) : t[j] # "."
        n == CHOOSE n \in 0..Len(t) :
                 /\ \A j \in (n + 1)..Len(t) : t[j] = " "
                 /\ (n = 0 \/ t[n] # " ")
    IN SubSeq(t, k + 1, n)

FileId(e) == CHOOSE t \in {SubSeq(e.contextid.text, a, b) :
                              a, b \in 1..Len(e.contextid.text)} :
                 IsTrimOf(t, e.contextid.text)

Files == files_xml.files

\* parse_files_xml has returned the index of a manifest that parses
IndexBuilt ==
    /\ files_xml.state = "ok"
    /\ pc \notin {"main", "crashed"}
    /\ fi > Len(Files)

Events(s) == {k \in 1..Len(log) : log[k].section = s}

Copied(s) == {k \in Events(s) : log[k].outcome = "copied"}

\* the number an output file name starts with
NumberOf(filename) == DigitsValue(Split(filename, " ")[1])

\* C1: once parse_files_xml has returned, the keys of the index are exactly
\* the content identifiers that some usable manifest entry carries, and the
\* (hash, extension) under a key is that of the first usable entry with that
\* identifier in manifest order.
C1_IndexHoldsFirstUsableEntry ==
    IndexBuilt =>
        /\ DOMAIN files_by_contextid =
               {FileId(Files[i]) : i \in {j \in 1..Len(Files) : UsableFile(Files[j])}}
        /\ \A i \in 1..Len(Files) :
              ( /\ UsableFile(Files[i])
                /\ \A j \in 1..(i - 1) :
                      ~(UsableFile(Files[j]) /\ FileId(Files[j]) = FileId(Files[i])) )
              => files_by_contextid[FileId(Files[i])] =
                     [contenthash |-> Files[i].contenthash.text,
                      extension |-> AfterLastPeriod(Files[i].filename.text)]

\* a usable entry is followed by a usable entry of the same identifier and
\* another hash, and the index has been returned
C1_Witness ==
    /\ IndexBuilt
    /\ \E i, j \in 1..Len(Files) :
        /\ i < j
        /\ UsableFile(Files[i]) /\ UsableFile(Files[j])
        /\ FileId(Files[i]) = FileId(Files[j])
        /\ Files[i].contenthash.text # Files[j].contenthash.text

\* the descriptor the program reads for an entry it resolved
RecordOf(ev) ==
    LET name == (IF ev.xml_type = "resource" THEN ResourcePrefix ELSE PagePrefix)
                \o ev.seq_id
    IN activities[CHOOSE i \in 1..Len(activities) : activities[i].name = name].xml

\* C2: every copy reads files/<first two characters of h>/<h> where (h, ext)
\* is the index entry under the contextid of the activity record resolved
\* for the reference, and the destination name ends with "." ext; so an
\* index entry under the reference id alone produces no file.
C2_CopyGoesThroughContextId ==
    \A k \in 1..Len(log) :
        log[k].outcome = "copied" =>
            LET c == RecordOf(log[k]).contextid IN
            /\ c \in DOMAIN files_by_contextid
            /\ LET h == files_by_contextid[c].contenthash
                   ext == files_by_contextid[c].extension
               IN /\ log[k].source = <<<<h[1], h[2]>>, h>>
                  /\ EndsWith(log[k].dest[2], <<".">> \o ext)
                  /\ log[k].dest \in DOMAIN output

\* the index has an entry under the reference id and none under the record's
\* contextid, and the entry was passed over
C2_Witness ==
    \E k \in 1..Len(log) :
        /\ log[k].outcome = "no_file_info"
        /\ log[k].seq_id \in DOMAIN files_by_contextid
        /\ RecordOf(log[k]).contextid \notin DOMAIN files_by_contextid
        /\ \A d \in DOMAIN output : d[1] # section_output_path

\* C6: when files.xml is absent, does not parse or gives an empty index, main
\* returns before process_sections: ./output is not created, no section is
\* read and nothing is copied; and main returns early only then.
C6_FatalBeforeExtraction ==
    /\ pc = "fatal" =>
          /\ ~output_dir /\ folders = {} /\ output = EmptyMap
          /\ si = 0 /\ log = <<>>
          /\ (files_xml.state # "ok" \/ DOMAIN files_by_contextid = {})
    /\ pc \in {"section", "item", "done"} =>
          /\ files_xml.state = "ok"
          /\ DOMAIN files_by_contextid # {}
          /\ output_dir

\* a manifest with entries, none usable, has stopped main
C6_Witness ==
    /\ pc = "fatal"
    /\ files_xml.state = "ok"
    /\ Len(Files) > 0
    /\ ~output_dir

\* the section folder holds a descriptor with number, name and sequence
WellFormed(s) ==
    /\ sections[s].isdir /\ sections[s].has_xml /\ sections[s].parses
    /\ sections[s].number.present /\ sections[s].name.present
    /\ sections[s].sequence.present

\* the positions of the authored sequence that are not blank
NonBlankEntries(s) ==
    {p \in 1..Len(sections[s].authored) : NonBlank(sections[s].authored[p])}

\* log[k] is the Ordinal(k)-th line printed for its section
Ordinal(k) == Cardinality({j \in Events(log[k].section) : j <= k})

\* the loop of the run has left section s behind
Finished(s) == si > s \/ pc = "done"

\* C3, as claimed: the numbers of the files written for a section are
\* 1, 2, ..., k in sequence order, whatever entries failed in between.
C3_NumbersDenseOverCopied ==
    \A k \in 1..Len(log) :
        log[k].outcome = "copied" =>
            NumberOf(log[k].dest[2]) =
                Cardinality({j \in Copied(log[k].section) : j <= k})

\* C3, amended: the number of a file written is the 1-based position of its
\* entry among the non-blank entries of the section's sequence, failed entries
\* counted: a failed entry leaves its number unused.
C3_NumbersCountFailedEntries ==
    \A k \in 1..Len(log) :
        log[k].outcome = "copied" =>
            /\ NumberOf(log[k].dest[2]) = Ordinal(k)
            /\ NumberOf(log[k].dest[2]) =
                   Cardinality({j \in Copied(log[k].section) : j <= k})
                   + Cardinality({j \in Events(log[k].section) \ Copied(log[k].section) : j < k})

\* a copy follows a failed entry of its section
C3_Witness ==
    \E j, k \in 1..Len(log) :
        /\ j < k
        /\ log[j].section = log[k].section
        /\ log[j].outcome # "copied"
        /\ log[k].outcome = "copied"
        /\ log[k].dest \in DOMAIN output

\* C4, as claimed: after a whole first run, the folder of every section holds
\* as many files as entries of that section were resolved and copied.
C4_FolderCountIsResolvedCount ==
    (pc = "done" /\ pass = "first") =>
        \A s \in 1..Len(sections) :
            WellFormed(s) =>
                Cardinality({d \in DOMAIN output : d[1] = FolderName(sections[s])})
                    = Cardinality(Copied(s))

\* every non-blank entry of every well-formed section has its printed line
AllAttempted ==
    \A s \in 1..Len(sections) :
        WellFormed(s) =>
            \A n \in 1..Cardinality(NonBlankEntries(s)) :
                \E k \in Events(s) : log[k].idx = n

\* C5: once process_sections walks the sections, the run reaches its end
\* with every non-blank entry of every well-formed section attempted,
\* whatever entries failed on the way.
C5_FailuresNeverAbort ==
    (pc \in {"section", "item"}) ~> (pc = "done" /\ AllAttempted)

\* the run is over, and a failed entry was followed by a copy in its section
\* and by an entry of a later section
C5_Witness ==
    /\ pc = "done"
    /\ \E j, k \in 1..Len(log) :
        /\ j < k
        /\ log[j].outcome \in {"copy_error", "no_source", "parse_error"}
        /\ log[k].outcome = "copied"
        /\ log[j].section < log[k].section

C8_NumberIsPositionAmongNonBlank ==
    \A s \in 1..Len(sections) :
        WellFormed(s) =>
            /\ \A k \in Events(s) :
                  /\ \E p \in NonBlankEntries(s) :
                        /\ IsTrimOf(log[k].seq_id, sections[s].authored[p])
                        /\ Cardinality({q \in NonBlankEntries(s) : q <= p}) = Ordinal(k)
                  /\ log[k].idx = Ordinal(k)
                  /\ log[k].outcome = "copied" =>
                        NumberOf(log[k].dest[2]) = Ordinal(k)
            /\ Finished(s) =>
                  /\ Cardinality(Events(s)) = Cardinality(NonBlankEntries(s))
                  /\ FolderName(sections[s]) \in folders
                  /\ (NonBlankEntries(s) = {} /\ Len(sections) = 1) =>
                        \A d \in DOMAIN output : d[1] # FolderName(sections[s])

\* a sequence of a reference, a blank and a reference has given the files
\* numbered 1 and 2 and no other
C8_Witness ==
    /\ pc = "done"
    /\ Len(sections) = 1
    /\ Len(sections[1].authored) = 3
    /\ ~NonBlank(sections[1].authored[2])
    /\ {NumberOf(d[2]) : d \in DOMAIN output} = {1, 2}
    /\ \E j, k \in Copied(1) : log[j].seq_id # log[k].seq_id

FolderExists(prefix, id) ==
    \E i \in 1..Len(activities) :
        activities[i].name = prefix \o id /\ activities[i].isdir

DescriptorExists(prefix, id) ==
    \E i \in 1..Len(activities) :
        /\ activities[i].name = prefix \o id
        /\ activities[i].isdir
        /\ activities[i].xml.exists

\* C9, as claimed: the first of the folders resource_<id>, page_<id> that
\* exists decides the kind, and the scan for other kinds runs only when
\* neither folder exists.
C9_FirstExistingFolderDecides ==
    \A k \in 1..Len(log) :
        /\ FolderExists(ResourcePrefix, log[k].seq_id) =>
              log[k].xml_type = "resource"
        /\ (~FolderExists(ResourcePrefix, log[k].seq_id)
            /\ FolderExists(PagePrefix, log[k].seq_id)) =>
              log[k].xml_type = "page"
        /\ log[k].scanned =>
              /\ ~FolderExists(ResourcePrefix, log[k].seq_id)
              /\ ~FolderExists(PagePrefix, log[k].seq_id)

\* C9, amended: the first of the descriptor files resource_<id>/resource.xml,
\* page_<id>/page.xml that exists decides the kind and is the one parsed,
\* usable or not, and the scan for other kinds runs exactly when neither
\* file exists.
C9_FirstExistingDescriptorDecides ==
    \A k \in 1..Len(log) :
        /\ DescriptorExists(ResourcePrefix, log[k].seq_id) =>
              log[k].xml_type = "resource"
        /\ (~DescriptorExists(ResourcePrefix, log[k].seq_id)
            /\ DescriptorExists(PagePrefix, log[k].seq_id)) =>
              log[k].xml_type = "page"
        /\ log[k].scanned <=>
              (~DescriptorExists(ResourcePrefix, log[k].seq_id)
               /\ ~DescriptorExists(PagePrefix, log[k].seq_id))
        /\ log[k].scanned <=> log[k].outcome \in {"unsupported", "not_found"}
        /\ log[k].outcome \in {"no_file_info", "no_source", "copy_error", "copied"} =>
              log[k].contextid = RecordOf(log[k]).contextid

\* an unparsable resource.xml was reported although page.xml is usable
C9_Witness ==
    \E k \in 1..Len(log) :
        /\ DescriptorExists(ResourcePrefix, log[k].seq_id)
        /\ DescriptorExists(PagePrefix, log[k].seq_id)
        /\ log[k].xml_type = "resource"
        /\ log[k].outcome = "parse_error"

\* C10, as claimed: no two copies of one run write the same destination.
C10_NoDestinationWrittenTwice ==
    \A j, k \in 1..Len(log) :
        (j < k /\ log[j].outcome = "copied" /\ log[k].outcome = "copied")
            => log[j].dest # log[k].dest

============================================================================
